---- MODULE Spec2Model ----
(***************************************************************************)
(* discogs-xml-to-parquet: the streaming release parser (src/src/main.rs)  *)
(* and its columnar batch writer, as a state machine.                      *)
(*                                                                         *)
(* One step of the machine is one call of EventReader::advance together    *)
(* with everything the program does with the event up to its next call of  *)
(* advance (or up to its exit).  The token source (gzip + quick_xml) and   *)
(* the parquet file are collaborators: the source answers each read with   *)
(* any event or with a read error, the file is the list of record batches  *)
(* handed to ArrowWriter::write plus a flag set by ArrowWriter::close.     *)
(*                                                                         *)
(* Text is modelled as a sequence of one-character strings, so that        *)
(* str::replace and str::parse are computed on characters.                 *)
(***************************************************************************)
EXTENDS Naturals, Sequences, FiniteSets

(***************************************************************************)
(* Bounds of the model.                                                    *)
(***************************************************************************)
\* Stand-in for BATCH_SIZE (main.rs:24, 10000 there): rows per flushed batch.
BATCH_SIZE == 2
\* Reads the event source answers, one event chosen freely per read (Spec).
MaxReads == 7
\* Events of a finite stream before its end (specification StreamSpec).
MaxStream == 5
\* Pieces an unescape input is assembled from (specification UnescapeSpec).
MaxPieces == 4
\* Children of the record whose order is permuted (specification OrderSpec).
MaxChildren == 3
\* Elements the element source delivers, one whole <release> (or the end of
\* the document) chosen per turn (ElementSpec).
MaxElements == 4

(***************************************************************************)
(* Text.                                                                   *)
(***************************************************************************)
NL == <<"\n">>
TextA == <<"A">>
TextAmp == <<"R", "&", "a", "m", "p", ";", "B">>
Accepted == <<"A", "c", "c", "e", "p", "t", "e", "d">>
Bogus == <<"B", "o", "g", "u", "s">>
One == <<"1">>
Two == <<"2">>
NotANumber == <<"x">>

\* The texts a text event carries in the model.
Texts == {NL, TextA, TextAmp}

(***************************************************************************)
(* Events (quick_xml::events::Event as the program looks at it).           *)
(***************************************************************************)
ReleaseChildNames ==
    {"title", "genres", "styles", "images", "artists", "extraartists",
     "labels", "formats", "country", "data_quality", "master_id",
     "tracklist", "videos", "released", "companies", "notes", "identifiers"}

SkipNames ==
    {"extraartists", "formats", "country", "data_quality", "master_id",
     "tracklist", "videos", "released", "companies", "notes", "identifiers"}

ArtistChildNames == {"id", "name", "anv", "join", "role", "tracks"}

Names ==
    {"releases", "release", "genre", "style", "image", "artist", "label",
     "bogus"} \cup ReleaseChildNames \cup ArtistChildNames

Attr(k, v) == [key |-> k, value |-> v, ok |-> TRUE]
\* An attribute the tokenizer reports as Err (malformed or duplicated).
BadAttr == [key |-> "", value |-> <<>>, ok |-> FALSE]

\* Attribute lists of a <release> start tag in the model: keys are distinct,
\* as the tokenizer reports a repeated key as Err.
ReleaseAttrLists ==
    { <<>>,
      <<Attr("id", One)>>,
      <<Attr("status", Accepted)>>,
      <<Attr("id", One), Attr("status", Accepted)>>,
      <<Attr("status", Accepted), Attr("id", Two)>>,
      <<Attr("id", Two), Attr("status", Bogus), Attr("extra", TextA)>>,
      <<Attr("id", One), BadAttr, Attr("status", Accepted)>>,
      <<Attr("id", NotANumber), Attr("status", Accepted)>> }

\* Attribute lists of a <label/> tag in the model.
LabelAttrLists ==
    { <<>>,
      <<Attr("id", One), Attr("catno", TextA), Attr("name", TextAmp)>>,
      <<Attr("name", TextA), Attr("id", Two), Attr("catno", TextA)>>,
      <<Attr("id", One), Attr("name", TextA)>>,
      <<Attr("id", One), Attr("catno", TextA), Attr("name", TextA),
        Attr("extra", TextA)>> }

Tag(k, n, as) == [kind |-> k, name |-> n, attrs |-> as, text |-> <<>>]
StartOf(n) == Tag("Start", n, <<>>)
EndOf(n) == Tag("End", n, <<>>)
EmptyOf(n) == Tag("Empty", n, <<>>)
TextOf(t) == [kind |-> "Text", name |-> "", attrs |-> <<>>, text |-> t]
Eof == [kind |-> "Eof", name |-> "", attrs |-> <<>>, text |-> <<>>]
\* The value of `event` before the first read and after a failed read.
NoEvent == [kind |-> "None", name |-> "", attrs |-> <<>>, text |-> <<>>]

Events ==
    {Tag(k, n, <<>>) : k \in {"Start", "End", "Empty"}, n \in Names}
    \cup {Tag("Start", "release", as) : as \in ReleaseAttrLists}
    \cup {Tag("Empty", "label", as) : as \in LabelAttrLists}
    \cup {TextOf(t) : t \in Texts}
    \cup {Eof}

(***************************************************************************)
(* EventExt: classification of one event.                                  *)
(***************************************************************************)
is_end_of(e, n) == e.kind = "End" /\ e.name = n
is_empty_tag(e) == e.kind = "Empty"
ok_start(e) == e.kind = "Start"
ok_start_of(e, n) == e.kind = "Start" /\ e.name = n
ok_end_of(e, n) == e.kind = "End" /\ e.name = n
ok_empty(e, n) == e.kind = "Empty" /\ e.name = n
\* A variant of ok_new_line that takes any text for the line break.
ok_any_text(e) == e.kind = "Text"
ok_new_line(e) == e.kind = "Text" /\ e.text = NL
ok_text(e) == e.kind = "Text"
ok_eof(e) == e.kind = "Eof"

\* ProcessingError values.
NoError == [kind |-> "None", name |-> ""]
ExpectedStart == [kind |-> "ExpectedStart", name |-> ""]
ExpectedStartOf(n) == [kind |-> "ExpectedStartOf", name |-> n]
ExpectedEndOf(n) == [kind |-> "ExpectedEndOf", name |-> n]
ExpectedEmpty(n) == [kind |-> "ExpectedEmpty", name |-> n]
ExpectedText == [kind |-> "ExpectedText", name |-> ""]
ExpectedNewline == [kind |-> "ExpectedNewline", name |-> ""]
ExpectedEof == [kind |-> "ExpectedEof", name |-> ""]
XMLParseError == [kind |-> "XMLParseError", name |-> ""]
\* Not a ProcessingError: the process aborted in panic!() or unwrap().
Panic == [kind |-> "Panic", name |-> ""]

\* The Result of each expectation: NoError for Ok, else the error returned.
\* A variant of expect_start_of that also takes a self-closing tag.
expect_start_or_empty_of(e, n) ==
    IF e.kind \in {"Start", "Empty"} /\ e.name = n THEN NoError ELSE ExpectedStartOf(n)
expect_start_of(e, n) == IF ok_start_of(e, n) THEN NoError ELSE ExpectedStartOf(n)
expect_start(e) == IF ok_start(e) THEN NoError ELSE ExpectedStart
expect_end_of(e, n) == IF ok_end_of(e, n) THEN NoError ELSE ExpectedEndOf(n)
expect_empty(e, n) == IF ok_empty(e, n) THEN NoError ELSE ExpectedEmpty(n)
expect_new_line(e) == IF ok_new_line(e) THEN NoError ELSE ExpectedNewline
expect_text(e) == IF ok_text(e) THEN NoError ELSE ExpectedText
expect_eof(e) == IF ok_eof(e) THEN NoError ELSE ExpectedEof

(***************************************************************************)
(* Arrow builders.  A StringBuilder is the sequence of its entries, a      *)
(* ListBuilder is its child values plus the end offset of every row, a     *)
(* StructBuilder is its member builders plus the number of item markers.   *)
(***************************************************************************)
Value(v) == [valid |-> TRUE, value |-> v]
Null == [valid |-> FALSE, value |-> <<>>]
append_value(b, v) == Append(b, Value(v))
append_null(b) == Append(b, Null)

EmptyStringList == [values |-> <<>>, offsets |-> <<>>]
EmptyArtists ==
    [id |-> <<>>, name |-> <<>>, anv |-> <<>>, join |-> <<>>, len |-> 0,
     offsets |-> <<>>]
EmptyLabels ==
    [id |-> <<>>, cat_no |-> <<>>, name |-> <<>>, len |-> 0, offsets |-> <<>>]

\* ReleaseBatchWriter::new, and every builder after finish().
NewWriter ==
    [pending |-> 0, ids |-> <<>>, statuses |-> <<>>, titles |-> <<>>,
     artists |-> EmptyArtists, genres |-> EmptyStringList,
     styles |-> EmptyStringList, labels |-> EmptyLabels]

\* str::parse::<u32>: an optional "+", then decimal digits whose value is at
\* most u32::MAX (compared digit by digit).
Digit(c) ==
    CASE c = "0" -> 0 [] c = "1" -> 1 [] c = "2" -> 2 [] c = "3" -> 3
      [] c = "4" -> 4 [] c = "5" -> 5 [] c = "6" -> 6 [] c = "7" -> 7
      [] c = "8" -> 8 [] c = "9" -> 9 [] OTHER -> 10
U32MaxDigits == <<4, 2, 9, 4, 9, 6, 7, 2, 9, 5>>
Unsigned(s) == IF s # <<>> /\ s[1] = "+" THEN Tail(s) ELSE s
RECURSIVE StripZeros(_)
StripZeros(s) == IF s # <<>> /\ s[1] = "0" THEN StripZeros(Tail(s)) ELSE s
FitsU32(d) ==
    \/ Len(d) < Len(U32MaxDigits)
    \/ /\ Len(d) = Len(U32MaxDigits)
       /\ \/ \A i \in 1..Len(d) : Digit(d[i]) = U32MaxDigits[i]
          \/ \E i \in 1..Len(d) :
                /\ Digit(d[i]) < U32MaxDigits[i]
                /\ \A j \in 1..(i - 1) : Digit(d[j]) = U32MaxDigits[j]
RECURSIVE Decimal(_)
Decimal(s) ==
    IF s = <<>> THEN 0 ELSE 10 * Decimal(SubSeq(s, 1, Len(s) - 1)) + Digit(s[Len(s)])
parse_u32_ok(s) ==
    /\ Unsigned(s) # <<>>
    /\ \A i \in 1..Len(Unsigned(s)) : Digit(Unsigned(s)[i]) < 10
    /\ FitsU32(StripZeros(Unsigned(s)))
parse_u32(s) == Decimal(Unsigned(s))

push_id(w, id) == [w EXCEPT !.ids = Append(@, id)]
push_status(w, status) == [w EXCEPT !.statuses = append_value(@, status)]
push_title(w, title) == [w EXCEPT !.titles = append_value(@, title)]

push_artist_id(w, id) == [w EXCEPT !.artists.id = append_value(@, id)]
push_artist_name(w, name) == [w EXCEPT !.artists.name = append_value(@, name)]
push_artist_anv(w, anv) == [w EXCEPT !.artists.anv = append_value(@, anv)]
\* A variant of push_artist_anv_null that stores an empty string, not a null.
push_artist_anv_empty(w) == [w EXCEPT !.artists.anv = append_value(@, <<>>)]
push_artist_anv_null(w) == [w EXCEPT !.artists.anv = append_null(@)]
push_artist_join(w, join) == [w EXCEPT !.artists.join = append_value(@, join)]
push_artist_join_null(w) == [w EXCEPT !.artists.join = append_null(@)]
push_end_of_artist(w) == [w EXCEPT !.artists.len = @ + 1]

\* A variant of push_genre that appends to the styles builder.
push_genre_as_style(w, genre) == [w EXCEPT !.styles.values = append_value(@, genre)]
push_genre(w, genre) == [w EXCEPT !.genres.values = append_value(@, genre)]
push_style(w, style) == [w EXCEPT !.styles.values = append_value(@, style)]

push_label_id(w, id) == [w EXCEPT !.labels.id = append_value(@, id)]
push_label_cat_no(w, cat_no) == [w EXCEPT !.labels.cat_no = append_value(@, cat_no)]
push_label_name(w, name) == [w EXCEPT !.labels.name = append_value(@, name)]
push_end_of_label(w) == [w EXCEPT !.labels.len = @ + 1]

\* ListBuilder::append(true): the row ends at the current length of the child.
end_string_row(l) == [l EXCEPT !.offsets = Append(@, Len(l.values))]
end_struct_row(l) == [l EXCEPT !.offsets = Append(@, l.len)]

\* ListBuilder::finish: row i holds the child entries between the offsets.
RowStart(offsets, i) == IF i = 1 THEN 0 ELSE offsets[i - 1]
ListRows(items, offsets) ==
    [i \in 1..Len(offsets) |-> SubSeq(items, RowStart(offsets, i) + 1, offsets[i])]

ArtistItems(a) ==
    [i \in 1..a.len |->
        [id |-> a.id[i], name |-> a.name[i], anv |-> a.anv[i], join |-> a.join[i]]]
LabelItems(l) ==
    [i \in 1..l.len |-> [id |-> l.id[i], cat_no |-> l.cat_no[i], name |-> l.name[i]]]

\* StructBuilder::finish panics unless every member builder has one entry per
\* item marker.
artists_finish_ok(a) ==
    /\ Len(a.id) = a.len /\ Len(a.name) = a.len
    /\ Len(a.anv) = a.len /\ Len(a.join) = a.len
labels_finish_ok(l) ==
    Len(l.id) = l.len /\ Len(l.cat_no) = l.len /\ Len(l.name) = l.len

\* RecordBatch::try_new(..).unwrap() panics unless all seven columns have
\* the same number of rows.
batch_ok(w) ==
    /\ artists_finish_ok(w.artists)
    /\ labels_finish_ok(w.labels)
    /\ Len(w.statuses) = Len(w.ids)
    /\ Len(w.titles) = Len(w.ids)
    /\ Len(w.artists.offsets) = Len(w.ids)
    /\ Len(w.genres.offsets) = Len(w.ids)
    /\ Len(w.styles.offsets) = Len(w.ids)
    /\ Len(w.labels.offsets) = Len(w.ids)

RecordBatch(w) ==
    [ids |-> w.ids, statuses |-> w.statuses, titles |-> w.titles,
     artists |-> ListRows(ArtistItems(w.artists), w.artists.offsets),
     genres |-> ListRows(w.genres.values, w.genres.offsets),
     styles |-> ListRows(w.styles.values, w.styles.offsets),
     labels |-> ListRows(LabelItems(w.labels), w.labels.offsets)]

\* The writer and the file after a call: `file` is the list of batches written.
Written(w, f) == [w |-> w, file |-> f, panic |-> FALSE]
Panicked(w, f) == [w |-> w, file |-> f, panic |-> TRUE]

\* A variant of flush that writes the batch and keeps the count of pending
\* records.
flush_keep_pending(w, f) ==
    IF w.pending > 0
    THEN IF batch_ok(w)
         THEN Written([NewWriter EXCEPT !.pending = w.pending],
                      Append(f, RecordBatch(w)))
         ELSE Panicked(w, f)
    ELSE Written(w, f)
flush(w, f) ==
    IF w.pending > 0
    THEN IF batch_ok(w)
         THEN Written(NewWriter, Append(f, RecordBatch(w)))
         ELSE Panicked(w, f)
    ELSE Written(w, f)

\* A variant of end_rows that leaves the genres row open.
end_rows_but_genres(w) ==
    [w EXCEPT !.artists = end_struct_row(@),
              !.styles = end_string_row(@), !.labels = end_struct_row(@)]

end_rows(w) ==
    [w EXCEPT !.artists = end_struct_row(@), !.genres = end_string_row(@),
              !.styles = end_string_row(@), !.labels = end_struct_row(@)]

\* A variant of write_release that counts the record but marks no row end.
write_release_unmarked(w, f) ==
    LET marked == [w EXCEPT !.pending = @ + 1]
    IN  IF marked.pending = BATCH_SIZE THEN flush(marked, f) ELSE Written(marked, f)
\* A variant of write_release that flushes one record late.
write_release_late(w, f) ==
    LET marked == [end_rows(w) EXCEPT !.pending = @ + 1]
    IN  IF marked.pending > BATCH_SIZE THEN flush(marked, f) ELSE Written(marked, f)

write_release(w, f) ==
    LET marked == [end_rows(w) EXCEPT !.pending = @ + 1]
    IN  IF marked.pending = BATCH_SIZE THEN flush(marked, f) ELSE Written(marked, f)

(***************************************************************************)
(* The parsers.  Each takes the position inside the parser, the writer and *)
(* the event that advance returned, and gives the next position, the       *)
(* writer and the error: the program between two calls of advance.         *)
(***************************************************************************)
Goto(p, w) == [pc |-> p, w |-> w, err |-> NoError]
\* A variant of Fail that notes the error and lets the record loop go on.
Fail_and_go_on(e, w) == [pc |-> "release_loop", w |-> w, err |-> e]
Fail(e, w) == [pc |-> "failed", w |-> w, err |-> e]
Abort(w) == [pc |-> "panicked", w |-> w, err |-> Panic]

\* str::replace("&amp;", "&"): leftmost matches, none overlapping, one pass.
AmpEntity == <<"&", "a", "m", "p", ";">>
HasPrefix(s, p) == Len(s) >= Len(p) /\ SubSeq(s, 1, Len(p)) = p
\* A variant of replace_amp that replaces the first occurrence only.
RECURSIVE replace_first_amp(_)
replace_first_amp(s) ==
    IF s = <<>> THEN <<>>
    ELSE IF HasPrefix(s, AmpEntity)
         THEN <<"&">> \o SubSeq(s, Len(AmpEntity) + 1, Len(s))
         ELSE <<s[1]>> \o replace_first_amp(Tail(s))

RECURSIVE replace_amp(_)
replace_amp(s) ==
    IF s = <<>> THEN <<>>
    ELSE IF HasPrefix(s, AmpEntity)
         THEN <<"&">> \o replace_amp(SubSeq(s, Len(AmpEntity) + 1, Len(s)))
         ELSE <<s[1]>> \o replace_amp(Tail(s))

\* A variant of release_attribute that rejects an attribute it does not know.
release_attribute_strict(r, a) ==
    IF r.panic THEN r
    ELSE IF a.ok /\ a.key = "id"
         THEN IF parse_u32_ok(a.value)
              THEN [r EXCEPT !.w = push_id(@, parse_u32(a.value))]
              ELSE [r EXCEPT !.panic = TRUE]
    ELSE IF a.ok /\ a.key = "status"
         THEN [r EXCEPT !.w = push_status(@, a.value)]
    ELSE [r EXCEPT !.panic = TRUE]
\* One attribute of <release>; panic is the unwrap of a failed parse::<u32>.
release_attribute(r, a) ==
    IF r.panic THEN r
    ELSE IF a.ok /\ a.key = "id"
         THEN IF parse_u32_ok(a.value)
              THEN [r EXCEPT !.w = push_id(@, parse_u32(a.value))]
              ELSE [r EXCEPT !.panic = TRUE]
    ELSE IF a.ok /\ a.key = "status"
         THEN [r EXCEPT !.w = push_status(@, a.value)]
    ELSE r

RECURSIVE release_attributes(_, _)
release_attributes(r, as) ==
    IF as = <<>> THEN r
    ELSE release_attributes(release_attribute(r, Head(as)), Tail(as))

parse_release_attributes(w, e) ==
    LET r == release_attributes([w |-> w, panic |-> FALSE], e.attrs)
    IN  IF r.panic THEN Abort(r.w) ELSE Goto("release_loop", r.w)

SkipPc ==
    [extraartists |-> "extra_artists", formats |-> "formats",
     country |-> "country", data_quality |-> "data_quality",
     master_id |-> "master_id", tracklist |-> "tracklist",
     videos |-> "videos", released |-> "released",
     companies |-> "companies", notes |-> "notes",
     identifiers |-> "identifiers"]

\* A variant of parse_release that passes over a child it does not know.
parse_release_lenient(pc_, w, e) ==
    IF pc_ = "release_loop"
    THEN IF is_end_of(e, "release") THEN Goto("release_newline", w)
         ELSE IF is_empty_tag(e) THEN Goto("release_loop", w)
         ELSE IF ~ok_start(e) THEN Fail(ExpectedStart, w)
         ELSE CASE e.name = "title" -> Goto("title_text", w)
                [] e.name = "genres" -> Goto("genres_loop", w)
                [] e.name = "styles" -> Goto("styles_loop", w)
                [] e.name = "images" -> Goto("images_loop", w)
                [] e.name = "artists" -> Goto("artists_loop", w)
                [] e.name = "labels" -> Goto("labels_loop", w)
                [] e.name \in SkipNames -> Goto(SkipPc[e.name], w)
                [] OTHER -> Goto("release_loop", w)
    ELSE \* release_newline; on success parse_release returns to main
         IF ok_new_line(e) THEN Goto("release_done", w)
         ELSE Fail(ExpectedNewline, w)

parse_release(pc_, w, e) ==
    IF pc_ = "release_loop"
    THEN IF is_end_of(e, "release") THEN Goto("release_newline", w)
         ELSE IF is_empty_tag(e) THEN Goto("release_loop", w)
         ELSE IF ~ok_start(e) THEN Fail(ExpectedStart, w)
         ELSE CASE e.name = "title" -> Goto("title_text", w)
                [] e.name = "genres" -> Goto("genres_loop", w)
                [] e.name = "styles" -> Goto("styles_loop", w)
                [] e.name = "images" -> Goto("images_loop", w)
                [] e.name = "artists" -> Goto("artists_loop", w)
                [] e.name = "labels" -> Goto("labels_loop", w)
                [] e.name \in SkipNames -> Goto(SkipPc[e.name], w)
                [] OTHER -> Abort(w)
    ELSE \* release_newline; on success parse_release returns to main
         IF ok_new_line(e) THEN Goto("release_done", w)
         ELSE Fail(ExpectedNewline, w)

parse_title(pc_, w, e) ==
    IF pc_ = "title_text"
    THEN IF ok_text(e) THEN Goto("title_end", push_title(w, e.text))
         ELSE Fail(ExpectedText, w)
    ELSE IF ok_end_of(e, "title") THEN Goto("release_loop", w)
         ELSE Fail(ExpectedEndOf("title"), w)

parse_genres(pc_, w, e) ==
    CASE pc_ = "genres_loop" ->
            IF is_end_of(e, "genres") THEN Goto("release_loop", w)
            ELSE IF ok_start_of(e, "genre") THEN Goto("genre_text", w)
            ELSE Fail(ExpectedStartOf("genre"), w)
      [] pc_ = "genre_text" ->
            IF ok_text(e) THEN Goto("genre_end", push_genre(w, replace_amp(e.text)))
            ELSE Fail(ExpectedText, w)
      [] OTHER ->
            IF ok_end_of(e, "genre") THEN Goto("genres_loop", w)
            ELSE Fail(ExpectedEndOf("genre"), w)

parse_styles(pc_, w, e) ==
    CASE pc_ = "styles_loop" ->
            IF is_end_of(e, "styles") THEN Goto("release_loop", w)
            ELSE IF ok_start_of(e, "style") THEN Goto("style_text", w)
            ELSE Fail(ExpectedStartOf("style"), w)
      [] pc_ = "style_text" ->
            IF ok_text(e) THEN Goto("style_end", push_style(w, replace_amp(e.text)))
            ELSE Fail(ExpectedText, w)
      [] OTHER ->
            IF ok_end_of(e, "style") THEN Goto("styles_loop", w)
            ELSE Fail(ExpectedEndOf("style"), w)

label_attribute(w, a) ==
    IF a.ok /\ a.key = "id" THEN push_label_id(w, a.value)
    ELSE IF a.ok /\ a.key = "catno" THEN push_label_cat_no(w, a.value)
    ELSE IF a.ok /\ a.key = "name" THEN push_label_name(w, a.value)
    ELSE w

RECURSIVE label_attributes(_, _)
label_attributes(w, as) ==
    IF as = <<>> THEN w
    ELSE label_attributes(label_attribute(w, Head(as)), Tail(as))

parse_labels(pc_, w, e) ==
    IF is_end_of(e, "labels") THEN Goto("release_loop", w)
    ELSE IF ok_empty(e, "label")
         THEN Goto("labels_loop", push_end_of_label(label_attributes(w, e.attrs)))
    ELSE Fail(ExpectedEmpty("label"), w)

parse_artists(pc_, w, e) ==
    IF is_end_of(e, "artists") THEN Goto("release_loop", w)
    ELSE IF ok_start_of(e, "artist") THEN Goto("artist_loop", w)
    ELSE Fail(ExpectedStartOf("artist"), w)

parse_artist(pc_, w, e) ==
    CASE pc_ = "artist_loop" ->
            IF is_end_of(e, "artist") THEN Goto("artists_loop", push_end_of_artist(w))
            ELSE IF ~ok_start(e) THEN Fail(ExpectedStart, w)
            ELSE CASE e.name = "id" -> Goto("artist_id_text", w)
                   [] e.name = "name" -> Goto("artist_name_text", w)
                   [] e.name = "anv" -> Goto("artist_anv", w)
                   [] e.name = "join" -> Goto("artist_join", w)
                   [] e.name = "role" -> Goto("artist_role_end", w)
                   [] e.name = "tracks" -> Goto("artist_tracks_end", w)
                   [] OTHER -> Abort(w)
      [] pc_ = "artist_id_text" ->
            IF ok_text(e) THEN Goto("artist_id_end", push_artist_id(w, e.text))
            ELSE Fail(ExpectedText, w)
      [] pc_ = "artist_id_end" ->
            IF ok_end_of(e, "id") THEN Goto("artist_loop", w)
            ELSE Fail(ExpectedEndOf("id"), w)
      [] pc_ = "artist_name_text" ->
            IF ok_text(e) THEN Goto("artist_name_end", push_artist_name(w, e.text))
            ELSE Fail(ExpectedText, w)
      [] pc_ = "artist_name_end" ->
            IF ok_end_of(e, "name") THEN Goto("artist_loop", w)
            ELSE Fail(ExpectedEndOf("name"), w)
      [] pc_ = "artist_anv" ->
            IF is_end_of(e, "anv") THEN Goto("artist_loop", push_artist_anv_null(w))
            ELSE IF ok_text(e) THEN Goto("artist_anv_end", push_artist_anv(w, e.text))
            ELSE Fail(ExpectedText, w)
      [] pc_ = "artist_anv_end" ->
            IF ok_end_of(e, "anv") THEN Goto("artist_loop", w)
            ELSE Fail(ExpectedEndOf("anv"), w)
      [] pc_ = "artist_join" ->
            IF is_end_of(e, "join") THEN Goto("artist_loop", push_artist_join_null(w))
            ELSE IF ok_text(e) THEN Goto("artist_join_end", push_artist_join(w, e.text))
            ELSE Fail(ExpectedText, w)
      [] pc_ = "artist_join_end" ->
            IF ok_end_of(e, "join") THEN Goto("artist_loop", w)
            ELSE Fail(ExpectedEndOf("join"), w)
      [] pc_ = "artist_role_end" ->
            IF ok_end_of(e, "role") THEN Goto("artist_loop", w)
            ELSE Fail(ExpectedEndOf("role"), w)
      [] OTHER -> \* artist_tracks_end
            IF ok_end_of(e, "tracks") THEN Goto("artist_loop", w)
            ELSE Fail(ExpectedEndOf("tracks"), w)

ArtistPcs ==
    {"artist_loop", "artist_id_text", "artist_id_end", "artist_name_text",
     "artist_name_end", "artist_anv", "artist_anv_end", "artist_join",
     "artist_join_end", "artist_role_end", "artist_tracks_end"}

parse_images(pc_, w, e) ==
    IF is_end_of(e, "images") THEN Goto("release_loop", w)
    ELSE IF ok_empty(e, "image") THEN Goto("images_loop", w)
    ELSE Fail(ExpectedEmpty("image"), w)

\* The eleven parsers of ignored subtrees: read until an end tag of the name.
parse_extra_artists(pc_, w, e) ==
    IF is_end_of(e, "extraartists") THEN Goto("release_loop", w) ELSE Goto(pc_, w)
parse_formats(pc_, w, e) ==
    IF is_end_of(e, "formats") THEN Goto("release_loop", w) ELSE Goto(pc_, w)
parse_country(pc_, w, e) ==
    IF is_end_of(e, "country") THEN Goto("release_loop", w) ELSE Goto(pc_, w)
parse_data_quality(pc_, w, e) ==
    IF is_end_of(e, "data_quality") THEN Goto("release_loop", w) ELSE Goto(pc_, w)
parse_master_id(pc_, w, e) ==
    IF is_end_of(e, "master_id") THEN Goto("release_loop", w) ELSE Goto(pc_, w)
parse_tracklist(pc_, w, e) ==
    IF is_end_of(e, "tracklist") THEN Goto("release_loop", w) ELSE Goto(pc_, w)
parse_videos(pc_, w, e) ==
    IF is_end_of(e, "videos") THEN Goto("release_loop", w) ELSE Goto(pc_, w)
parse_released(pc_, w, e) ==
    IF is_end_of(e, "released") THEN Goto("release_loop", w) ELSE Goto(pc_, w)
parse_companies(pc_, w, e) ==
    IF is_end_of(e, "companies") THEN Goto("release_loop", w) ELSE Goto(pc_, w)
parse_notes(pc_, w, e) ==
    IF is_end_of(e, "notes") THEN Goto("release_loop", w) ELSE Goto(pc_, w)
parse_identifiers(pc_, w, e) ==
    IF is_end_of(e, "identifiers") THEN Goto("release_loop", w) ELSE Goto(pc_, w)

\* ReleaseBatchWriter::close: flush the remainder, then finalize the file.
\* A variant of close that finalizes the file without flushing the remainder.
close_without_flush(w, f) == Written(w, f)
close(w, f) == flush(w, f)

SkipPcs == {SkipPc[x] : x \in SkipNames}
SkipNameOf(p) == CHOOSE x \in SkipNames : SkipPc[x] = p

\* The parser that is reading at a position.
step(pc_, w, e) ==
    CASE pc_ \in {"release_loop", "release_newline"} -> parse_release(pc_, w, e)
      [] pc_ \in {"title_text", "title_end"} -> parse_title(pc_, w, e)
      [] pc_ \in {"genres_loop", "genre_text", "genre_end"} -> parse_genres(pc_, w, e)
      [] pc_ \in {"styles_loop", "style_text", "style_end"} -> parse_styles(pc_, w, e)
      [] pc_ = "labels_loop" -> parse_labels(pc_, w, e)
      [] pc_ = "artists_loop" -> parse_artists(pc_, w, e)
      [] pc_ \in ArtistPcs -> parse_artist(pc_, w, e)
      [] pc_ = "images_loop" -> parse_images(pc_, w, e)
      [] pc_ = "extra_artists" -> parse_extra_artists(pc_, w, e)
      [] pc_ = "formats" -> parse_formats(pc_, w, e)
      [] pc_ = "country" -> parse_country(pc_, w, e)
      [] pc_ = "data_quality" -> parse_data_quality(pc_, w, e)
      [] pc_ = "master_id" -> parse_master_id(pc_, w, e)
      [] pc_ = "tracklist" -> parse_tracklist(pc_, w, e)
      [] pc_ = "videos" -> parse_videos(pc_, w, e)
      [] pc_ = "released" -> parse_released(pc_, w, e)
      [] pc_ = "companies" -> parse_companies(pc_, w, e)
      [] pc_ = "notes" -> parse_notes(pc_, w, e)
      [] pc_ = "identifiers" -> parse_identifiers(pc_, w, e)
      [] OTHER -> [pc |-> pc_, w |-> w, err |-> NoError]

(***************************************************************************)
(* The input of ElementSpec: whole <release> elements, each followed by    *)
(* its newline, assembled from child elements.                             *)
(***************************************************************************)
Element(x, body) == <<StartOf(x)>> \o body \o <<EndOf(x)>>
Leaf(x, t) == Element(x, <<TextOf(t)>>)

GoodAttrs == <<Attr("id", One), Attr("status", Accepted)>>
OtherAttrs == <<Attr("status", Accepted), Attr("id", Two)>>
Release(as, children) ==
    <<Tag("Start", "release", as)>> \o children
    \o <<EndOf("release"), TextOf(NL)>>

TitleA == Leaf("title", TextA)
TitleAmp == Leaf("title", TextAmp)
GenresAmp == Element("genres", Leaf("genre", TextAmp))
GenresTwo == Element("genres", Leaf("genre", TextA) \o Leaf("genre", TextAmp))
StylesA == Element("styles", Leaf("style", TextA))
Artists(members) == Element("artists", Element("artist", members))
ArtistFull ==
    Artists(Leaf("id", One) \o Leaf("name", TextA) \o Element("anv", <<>>)
            \o Element("join", <<>>))
ArtistCredited ==
    Artists(Leaf("id", Two) \o Leaf("name", TextAmp) \o Leaf("anv", TextA)
            \o Leaf("join", TextA) \o Element("role", <<>>)
            \o Element("tracks", <<>>))
ArtistNoName ==
    Artists(Leaf("id", Two) \o Element("anv", <<>>) \o Element("join", <<>>))
ArtistTwoNames ==
    Artists(Leaf("id", Two) \o Leaf("name", TextA) \o Leaf("name", TextAmp)
            \o Element("anv", <<>>) \o Element("join", <<>>))
FullLabel(id) ==
    Tag("Empty", "label",
        <<Attr("id", id), Attr("catno", TextA), Attr("name", TextAmp)>>)
LabelsTwo == Element("labels", <<FullLabel(One), FullLabel(Two)>>)
Images == Element("images", <<EmptyOf("image")>>)
NestedTracklist ==
    Element("tracklist", Element("track", Element("tracklist", <<>>)))
Ignored ==
    Leaf("extraartists", TextA) \o Leaf("formats", TextA) \o Leaf("country", TextA)
    \o Leaf("data_quality", TextA) \o Leaf("master_id", TextA)
    \o Leaf("tracklist", TextA) \o Leaf("videos", TextA) \o Leaf("released", TextA)
    \o Leaf("companies", TextA) \o Leaf("notes", TextA)
    \o Leaf("identifiers", TextA)

Elements ==
    { Release(GoodAttrs, TitleA),
      Release(GoodAttrs, TitleA \o GenresAmp \o ArtistFull),
      Release(OtherAttrs,
              TitleAmp \o Element("genres", <<>>) \o StylesA \o LabelsTwo),
      Release(OtherAttrs, GenresTwo \o TitleA \o ArtistCredited),
      Release(GoodAttrs, TitleA \o TitleAmp),
      Release(OtherAttrs, <<>>),
      Release(<<Attr("status", Accepted)>>, TitleA),
      Release(GoodAttrs, TitleA \o ArtistNoName),
      Release(OtherAttrs, TitleA \o ArtistTwoNames),
      Release(GoodAttrs, Images \o Ignored \o <<EmptyOf("bogus")>> \o TitleA),
      Release(GoodAttrs, TitleA \o NestedTracklist),
      <<EndOf("releases"), TextOf(NL), Eof>> }

DocumentStart == <<StartOf("releases"), TextOf(NL)>>

(***************************************************************************)
(* State.                                                                  *)
(***************************************************************************)
VARIABLES
    pc,         \* where the program is about to call advance, or how it ended
    event,      \* the event the last advance returned
    err,        \* the ProcessingError main returned, or Panic
    n,          \* main's loop counter
    writer,     \* the ReleaseBatchWriter: pending and the seven builders
    file,       \* the record batches handed to ArrowWriter::write
    closed,     \* ArrowWriter::close has finalized the file
    mode,       \* the event source: "events" or "elements"
    queue,      \* events of the element being delivered
    budget,     \* choices the source has left
    appended,   \* observer: entries appended since the last write_release
    rows,       \* observer: `appended` at every write_release that returned
    nested,     \* observer: same-named start tags read by the ignoring parser
    unescape,   \* UnescapeSpec: a text and what parse_genres/parse_styles store
    order,      \* OrderSpec: the children of a release, in two orders
    expect,     \* ExpectSpec: an event, a name and what each expect_* returns
    past        \* parity of the reads answered after the end of the stream

vars ==
    <<pc, event, err, n, writer, file, closed, mode, queue, budget,
      appended, rows, nested, unescape, order, expect, past>>

NoneAppended ==
    [ids |-> <<>>, statuses |-> <<>>, titles |-> <<>>, genres |-> <<>>,
     styles |-> <<>>, artists |-> 0, labels |-> 0]

Suffix(new, old) == SubSeq(new, Len(old) + 1, Len(new))

\* `appended` after a parser turned writer w into v.
Observe(a, w, v) ==
    [ids |-> a.ids \o Suffix(v.ids, w.ids),
     statuses |-> a.statuses \o Suffix(v.statuses, w.statuses),
     titles |-> a.titles \o Suffix(v.titles, w.titles),
     genres |-> a.genres \o Suffix(v.genres.values, w.genres.values),
     styles |-> a.styles \o Suffix(v.styles.values, w.styles.values),
     artists |-> a.artists + (v.artists.len - w.artists.len),
     labels |-> a.labels + (v.labels.len - w.labels.len)]

InitProgram ==
    /\ pc = "expect_releases"
    /\ event = NoEvent
    /\ err = NoError
    /\ n = 0
    /\ writer = NewWriter
    /\ file = <<>>
    /\ closed = FALSE
    /\ appended = NoneAppended
    /\ rows = <<>>
    /\ nested = 0
    /\ past = 0

NoUnescape == [pc |-> "idle", text |-> <<>>, genre |-> <<>>, style |-> <<>>]
NoExpect ==
    [pc |-> "idle", event |-> NoEvent, name |-> "", start_of |-> NoError,
     end_of |-> NoError, empty |-> NoError, text |-> NoError,
     new_line |-> NoError, eof |-> NoError]
NoOrder ==
    [pc |-> "idle", children |-> <<>>, perm |-> <<>>,
     first |-> Goto("idle", NewWriter), second |-> Goto("idle", NewWriter)]

Init ==
    /\ InitProgram
    /\ unescape = NoUnescape
    /\ order = NoOrder
    /\ expect = NoExpect
    /\ mode = "events"
    /\ queue = <<>>
    /\ budget = MaxReads

\* A finite stream of any events, then the end of input for ever.
StreamInit ==
    /\ InitProgram
    /\ unescape = NoUnescape
    /\ order = NoOrder
    /\ expect = NoExpect
    /\ mode = "stream"
    /\ queue = <<>>
    /\ budget = MaxStream

ElementInit ==
    /\ InitProgram
    /\ unescape = NoUnescape
    /\ order = NoOrder
    /\ expect = NoExpect
    /\ mode = "elements"
    /\ queue = DocumentStart
    /\ budget = MaxElements

(***************************************************************************)
(* EventReader::advance.                                                   *)
(***************************************************************************)
\* The stream has ended: quick_xml answers every further read with Eof.
PastTheEnd == mode = "stream" /\ queue = <<>> /\ budget = 0

\* What the source may deliver next: the rest of the element in delivery,
\* else any event (any element) while the budget lasts; after the end of a
\* stream, Eof.
SourceChoices ==
    IF queue # <<>> THEN {queue}
    ELSE IF budget = 0 THEN (IF mode = "stream" THEN {<<Eof>>} ELSE {})
    ELSE IF mode \in {"events", "stream"} THEN {<<e>> : e \in Events}
    ELSE Elements

Deliver(c) ==
    /\ event' = Head(c)
    /\ queue' = Tail(c)
    /\ budget' = IF queue = <<>> /\ budget > 0 THEN budget - 1 ELSE budget
    /\ past' = IF PastTheEnd THEN 1 - past ELSE past
    /\ UNCHANGED <<mode, unescape, order, expect>>

\* advance returns Err: main returns it (XMLParseError).
ReadFails ==
    /\ SourceChoices # {}
    /\ ~PastTheEnd
    /\ event' = NoEvent
    /\ pc' = "failed"
    /\ err' = XMLParseError
    /\ UNCHANGED <<n, writer, file, closed, mode, queue, budget, appended, rows,
                   nested, unescape, order, expect, past>>

\* A parser below main reads the event c delivers; r is what the parser makes
\* of it.
Advance(c, r) ==
    /\ Deliver(c)
    /\ pc' = r.pc
    /\ writer' = r.w
    /\ err' = r.err
    /\ appended' = Observe(appended, writer, r.w)
    /\ nested' = IF pc = "release_loop" THEN 0
                 ELSE IF pc \in SkipPcs /\ ok_start_of(Head(c), SkipNameOf(pc))
                      THEN nested + 1
                 ELSE nested
    /\ UNCHANGED <<n, file, closed, rows>>

(***************************************************************************)
(* main.                                                                   *)
(***************************************************************************)
\* A variant of main_expect that does not look at the last event.
main_expect_no_eof(pc_, w, e) ==
    CASE pc_ = "expect_releases" ->
            IF ok_start_of(e, "releases") THEN Goto("expect_first_newline", w)
            ELSE Fail(ExpectedStartOf("releases"), w)
      [] pc_ = "expect_first_newline" ->
            IF ok_new_line(e) THEN Goto("main_loop", w)
            ELSE Fail(ExpectedNewline, w)
      [] pc_ = "expect_last_newline" ->
            IF ok_new_line(e) THEN Goto("expect_eof", w)
            ELSE Fail(ExpectedNewline, w)
      [] OTHER -> Goto("done", w)
\* main's assertions on the first two events and on the last two.
main_expect(pc_, w, e) ==
    CASE pc_ = "expect_releases" ->
            IF ok_start_of(e, "releases") THEN Goto("expect_first_newline", w)
            ELSE Fail(ExpectedStartOf("releases"), w)
      [] pc_ = "expect_first_newline" ->
            IF ok_new_line(e) THEN Goto("main_loop", w)
            ELSE Fail(ExpectedNewline, w)
      [] pc_ = "expect_last_newline" ->
            IF ok_new_line(e) THEN Goto("expect_eof", w)
            ELSE Fail(ExpectedNewline, w)
      [] OTHER -> \* expect_eof, then println!("DONE") and Ok(())
            IF ok_eof(e) THEN Goto("done", w)
            ELSE Fail(ExpectedEof, w)

MainExpect ==
    /\ pc \in {"expect_releases", "expect_first_newline", "expect_last_newline",
               "expect_eof"}
    /\ \/ \E c \in SourceChoices : Advance(c, main_expect(pc, writer, Head(c)))
       \/ ReadFails

\* The head of main's loop: the end of the container breaks out of the loop
\* and closes the writer; anything else must open a release.
MainLoop ==
    /\ pc = "main_loop"
    /\ \/ \E c \in SourceChoices :
             /\ Deliver(c)
             /\ n' = n + 1
             /\ IF is_end_of(Head(c), "releases")
                THEN LET r == close(writer, file)
                     IN  /\ writer' = r.w
                         /\ file' = r.file
                         /\ closed' = ~r.panic
                         /\ pc' = IF r.panic THEN "panicked" ELSE "expect_last_newline"
                         /\ err' = IF r.panic THEN Panic ELSE NoError
                         /\ UNCHANGED appended
                ELSE IF ok_start_of(Head(c), "release")
                THEN LET r == parse_release_attributes(writer, Head(c))
                     IN  /\ writer' = r.w
                         /\ pc' = r.pc
                         /\ err' = r.err
                         /\ appended' = Observe(appended, writer, r.w)
                         /\ UNCHANGED <<file, closed>>
                ELSE /\ pc' = "failed"
                     /\ err' = ExpectedStartOf("release")
                     /\ UNCHANGED <<writer, file, closed, appended>>
             /\ UNCHANGED <<rows, nested>>
       \/ /\ ReadFails

\* parse_release; when it returns Ok, main calls write_release and loops.
ParseRelease ==
    /\ pc \in {"release_loop", "release_newline"}
    /\ \/ \E c \in SourceChoices :
             LET r == parse_release(pc, writer, Head(c))
             IN  /\ Deliver(c)
                 /\ IF r.pc = "release_done"
                    THEN LET x == write_release(r.w, file)
                         IN  /\ writer' = x.w
                             /\ file' = x.file
                             /\ pc' = IF x.panic THEN "panicked" ELSE "main_loop"
                             /\ err' = IF x.panic THEN Panic ELSE NoError
                             /\ appended' = IF x.panic THEN appended ELSE NoneAppended
                             /\ rows' = IF x.panic THEN rows ELSE Append(rows, appended)
                             /\ UNCHANGED nested
                    ELSE /\ writer' = r.w
                         /\ pc' = r.pc
                         /\ err' = r.err
                         /\ nested' = IF pc = "release_loop" THEN 0 ELSE nested
                         /\ UNCHANGED <<file, appended, rows>>
                 /\ UNCHANGED <<n, closed>>
       \/ ReadFails

ParseTitle ==
    /\ pc \in {"title_text", "title_end"}
    /\ \/ \E c \in SourceChoices : Advance(c, parse_title(pc, writer, Head(c)))
       \/ ReadFails
ParseGenres ==
    /\ pc \in {"genres_loop", "genre_text", "genre_end"}
    /\ \/ \E c \in SourceChoices : Advance(c, parse_genres(pc, writer, Head(c)))
       \/ ReadFails
ParseStyles ==
    /\ pc \in {"styles_loop", "style_text", "style_end"}
    /\ \/ \E c \in SourceChoices : Advance(c, parse_styles(pc, writer, Head(c)))
       \/ ReadFails
ParseLabels ==
    /\ pc = "labels_loop"
    /\ \/ \E c \in SourceChoices : Advance(c, parse_labels(pc, writer, Head(c)))
       \/ ReadFails
ParseArtists ==
    /\ pc = "artists_loop"
    /\ \/ \E c \in SourceChoices : Advance(c, parse_artists(pc, writer, Head(c)))
       \/ ReadFails
ParseArtist ==
    /\ pc \in ArtistPcs
    /\ \/ \E c \in SourceChoices : Advance(c, parse_artist(pc, writer, Head(c)))
       \/ ReadFails
ParseImages ==
    /\ pc = "images_loop"
    /\ \/ \E c \in SourceChoices : Advance(c, parse_images(pc, writer, Head(c)))
       \/ ReadFails
ParseExtraArtists ==
    /\ pc = "extra_artists"
    /\ \/ \E c \in SourceChoices : Advance(c, parse_extra_artists(pc, writer, Head(c)))
       \/ ReadFails
ParseFormats ==
    /\ pc = "formats"
    /\ \/ \E c \in SourceChoices : Advance(c, parse_formats(pc, writer, Head(c)))
       \/ ReadFails
ParseCountry ==
    /\ pc = "country"
    /\ \/ \E c \in SourceChoices : Advance(c, parse_country(pc, writer, Head(c)))
       \/ ReadFails
ParseDataQuality ==
    /\ pc = "data_quality"
    /\ \/ \E c \in SourceChoices : Advance(c, parse_data_quality(pc, writer, Head(c)))
       \/ ReadFails
ParseMasterId ==
    /\ pc = "master_id"
    /\ \/ \E c \in SourceChoices : Advance(c, parse_master_id(pc, writer, Head(c)))
       \/ ReadFails
ParseTracklist ==
    /\ pc = "tracklist"
    /\ \/ \E c \in SourceChoices : Advance(c, parse_tracklist(pc, writer, Head(c)))
       \/ ReadFails
ParseVideos ==
    /\ pc = "videos"
    /\ \/ \E c \in SourceChoices : Advance(c, parse_videos(pc, writer, Head(c)))
       \/ ReadFails
ParseReleased ==
    /\ pc = "released"
    /\ \/ \E c \in SourceChoices : Advance(c, parse_released(pc, writer, Head(c)))
       \/ ReadFails
ParseCompanies ==
    /\ pc = "companies"
    /\ \/ \E c \in SourceChoices : Advance(c, parse_companies(pc, writer, Head(c)))
       \/ ReadFails
ParseNotes ==
    /\ pc = "notes"
    /\ \/ \E c \in SourceChoices : Advance(c, parse_notes(pc, writer, Head(c)))
       \/ ReadFails
ParseIdentifiers ==
    /\ pc = "identifiers"
    /\ \/ \E c \in SourceChoices : Advance(c, parse_identifiers(pc, writer, Head(c)))
       \/ ReadFails

Next ==
    \/ MainExpect
    \/ MainLoop
    \/ ParseRelease
    \/ ParseTitle
    \/ ParseGenres
    \/ ParseStyles
    \/ ParseLabels
    \/ ParseArtists
    \/ ParseArtist
    \/ ParseImages
    \/ ParseExtraArtists
    \/ ParseFormats
    \/ ParseCountry
    \/ ParseDataQuality
    \/ ParseMasterId
    \/ ParseTracklist
    \/ ParseVideos
    \/ ParseReleased
    \/ ParseCompanies
    \/ ParseNotes
    \/ ParseIdentifiers

\* The event source answers every read with any event.
Spec == Init /\ [][Next]_vars
\* The event source delivers whole elements.
ElementSpec == ElementInit /\ [][Next]_vars
\* The program keeps running while it can: main is the only thread.
StreamSpec == StreamInit /\ [][Next]_vars /\ WF_vars(Next)

(***************************************************************************)
(* UnescapeSpec: parse_genres and parse_styles on one <genre>/<style> text.*)
(***************************************************************************)
AmpTail == <<"a", "m", "p", ";">>
Pieces == {AmpEntity, <<"&">>, AmpTail, <<"R">>}

RECURSIVE Flatten(_)
Flatten(ss) == IF ss = <<>> THEN <<>> ELSE Head(ss) \o Flatten(Tail(ss))

PieceLists == UNION {[1..k -> Pieces] : k \in 0..MaxPieces}
UnescapeInputs == {Flatten(ps) : ps \in PieceLists}

\* The entry parse_genres (parse_styles) appends for the text t.
StoredGenre(t) ==
    LET w == parse_genres("genre_text", NewWriter, TextOf(t)).w
    IN  w.genres.values[Len(w.genres.values)].value
StoredStyle(t) ==
    LET w == parse_styles("style_text", NewWriter, TextOf(t)).w
    IN  w.styles.values[Len(w.styles.values)].value

UnescapeInit ==
    /\ InitProgram
    /\ mode = "events"
    /\ queue = <<>>
    /\ budget = 0
    /\ order = NoOrder
    /\ expect = NoExpect
    /\ unescape \in {[NoUnescape EXCEPT !.pc = "text", !.text = t] : t \in UnescapeInputs}

UnescapeStep ==
    /\ unescape.pc = "text"
    /\ unescape' = [unescape EXCEPT !.pc = "stored",
                                    !.genre = StoredGenre(unescape.text),
                                    !.style = StoredStyle(unescape.text)]
    /\ UNCHANGED <<pc, event, err, n, writer, file, closed, mode, queue, budget,
                   appended, rows, nested, order, expect, past>>

UnescapeNext == UnescapeStep
UnescapeSpec == UnescapeInit /\ [][UnescapeNext]_vars

(***************************************************************************)
(* OrderSpec: parse_release on the children of one release, in two orders. *)
(***************************************************************************)
OrderChildren ==
    {TitleA, TitleAmp, GenresAmp, GenresTwo, StylesA, ArtistFull, LabelsTwo,
     Leaf("notes", TextA), NestedTracklist}

Permutations(k) ==
    {f \in [1..k -> 1..k] : \A i, j \in 1..k : f[i] = f[j] => i = j}
Permuted(cs, f) == [i \in 1..Len(cs) |-> cs[f[i]]]

\* parse_release from its loop head over the events es, until it returns.
RECURSIVE Run(_, _)
Run(p, es) ==
    IF es = <<>> \/ p.pc \in {"failed", "panicked", "release_done"} THEN p
    ELSE Run(step(p.pc, p.w, Head(es)), Tail(es))

RunRelease(cs) ==
    Run(parse_release_attributes(NewWriter, Tag("Start", "release", GoodAttrs)),
        Flatten(cs) \o <<EndOf("release"), TextOf(NL)>>)

OrderInit ==
    /\ InitProgram
    /\ mode = "events"
    /\ queue = <<>>
    /\ budget = 0
    /\ unescape = NoUnescape
    /\ expect = NoExpect
    /\ order \in {[NoOrder EXCEPT !.pc = "children", !.children = cs, !.perm = f] :
                     cs \in [1..MaxChildren -> OrderChildren],
                     f \in Permutations(MaxChildren)}

OrderStep ==
    /\ order.pc = "children"
    /\ order' = [order EXCEPT !.pc = "parsed",
                              !.first = RunRelease(order.children),
                              !.second = RunRelease(Permuted(order.children, order.perm))]
    /\ UNCHANGED <<pc, event, err, n, writer, file, closed, mode, queue, budget,
                   appended, rows, nested, unescape, expect, past>>

OrderNext == OrderStep
OrderSpec == OrderInit /\ [][OrderNext]_vars

(***************************************************************************)
(* ExpectSpec: every expectation of EventExt applied to one event and one  *)
(* name.                                                                   *)
(***************************************************************************)
ExpectInit ==
    /\ InitProgram
    /\ mode = "events"
    /\ queue = <<>>
    /\ budget = 0
    /\ unescape = NoUnescape
    /\ order = NoOrder
    /\ expect \in {[NoExpect EXCEPT !.pc = "event", !.event = e, !.name = x] :
                      e \in Events, x \in Names}

ExpectStep ==
    /\ expect.pc = "event"
    /\ expect' = [expect EXCEPT !.pc = "classified",
                                !.start_of = expect_start_of(expect.event, expect.name),
                                !.end_of = expect_end_of(expect.event, expect.name),
                                !.empty = expect_empty(expect.event, expect.name),
                                !.text = expect_text(expect.event),
                                !.new_line = expect_new_line(expect.event),
                                !.eof = expect_eof(expect.event)]
    /\ UNCHANGED <<pc, event, err, n, writer, file, closed, mode, queue, budget,
                   appended, rows, nested, unescape, order, past>>

ExpectNext == ExpectStep
ExpectSpec == ExpectInit /\ [][ExpectNext]_vars

(***************************************************************************)
(* Properties.                                                             *)
(***************************************************************************)
Ended == pc \in {"done", "failed", "panicked"}
Columns == {"ids", "statuses", "titles", "artists", "genres", "styles", "labels"}

\* Rows of column c in the batches written.
RECURSIVE WrittenRows(_, _)
WrittenRows(f, c) == IF f = <<>> THEN <<>> ELSE Head(f)[c] \o WrittenRows(Tail(f), c)
RowCounts(b) == {Len(b[c]) : c \in Columns}
RowLengths(offsets) ==
    [i \in 1..Len(offsets) |-> offsets[i] - RowStart(offsets, i)]
Lengths(rs) == [i \in 1..Len(rs) |-> Len(rs[i])]

\* C1 (as claimed): after a successful conversion of N records every column
\* holds N rows, and id, status and title were each appended exactly once for
\* every record.
C1_RowAlignment ==
    pc = "done" =>
        /\ \A c \in Columns : Len(WrittenRows(file, c)) = Len(rows)
        /\ \A i \in 1..Len(rows) :
              /\ Len(rows[i].ids) = 1
              /\ Len(rows[i].statuses) = 1
              /\ Len(rows[i].titles) = 1

C3_CloseOnlyOnSuccess == pc \in {"failed", "panicked"} => ~closed

\* C4 (as claimed): an ignoring parser returns to the dispatcher only at the
\* end tag of its own start tag: no same-named element is still open.
C4_SkipReturnsAtOwnClose == pc = "release_loop" => nested = 0

\* C5 (as claimed): in the child loop every child element with an
\* unrecognised name, self-closing or not, aborts the conversion.
C5_UnknownChildAborts ==
    [][(/\ pc = "release_loop"
        /\ event'.kind \in {"Start", "Empty"}
        /\ event'.name \notin ReleaseChildNames) => pc' = "panicked"]_vars

\* C5 (amended): a start tag with an unrecognised name aborts at once, with
\* nothing appended, and nothing runs after the abort; a self-closing tag of
\* any name is skipped and the loop goes on.
C5_UnknownStartAborts ==
    [][/\ ~Ended
       /\ pc = "release_loop" =>
             /\ (event'.kind = "Start" /\ event'.name \notin ReleaseChildNames) =>
                   pc' = "panicked" /\ err' = Panic /\ writer' = writer /\ file' = file
             /\ event'.kind = "Empty" =>
                   pc' = "release_loop" /\ writer' = writer /\ file' = file]_vars

C5_Witness == pc = "panicked" /\ event = StartOf("name")

\* C6: after <anv> the end tag appends one null entry to the anv member and a
\* text appends that text as a value; the same for <join>.
C6_NullPreservation ==
    [][/\ (pc = "artist_anv" /\ event' = EndOf("anv")) =>
              writer' = [writer EXCEPT !.artists.anv =
                            Append(@, [valid |-> FALSE, value |-> <<>>])]
       /\ (pc = "artist_anv" /\ event'.kind = "Text") =>
              writer' = [writer EXCEPT !.artists.anv =
                            Append(@, [valid |-> TRUE, value |-> event'.text])]
       /\ (pc = "artist_join" /\ event' = EndOf("join")) =>
              writer' = [writer EXCEPT !.artists.join =
                            Append(@, [valid |-> FALSE, value |-> <<>>])]
       /\ (pc = "artist_join" /\ event'.kind = "Text") =>
              writer' = [writer EXCEPT !.artists.join =
                            Append(@, [valid |-> TRUE, value |-> event'.text])]]_vars

C6_Witness ==
    /\ pc = "artist_loop"
    /\ event = EndOf("anv")
    /\ Len(writer.artists.anv) = 1
    /\ ~writer.artists.anv[1].valid

\* The text s with every occurrence of &amp; replaced by &: the characters
\* of s outside the "amp;" of an occurrence, in order.
AmpAt(s, i) ==
    i + 4 <= Len(s) /\ SubSeq(s, i, i + 4) = <<"&", "a", "m", "p", ";">>
KeptPositions(s) ==
    {j \in 1..Len(s) : ~\E i \in 1..Len(s) : AmpAt(s, i) /\ j \in (i + 1)..(i + 4)}
EveryAmpReplaced(s) ==
    LET K == KeptPositions(s)
    IN  [k \in 1..Cardinality(K) |->
            s[CHOOSE j \in K : Cardinality({x \in K : x <= j}) = k]]
\* s contains &amp;amp;
DoubledAmp(s) ==
    \E i \in 1..Len(s) :
        AmpAt(s, i) /\ i + 8 <= Len(s) /\ SubSeq(s, i + 5, i + 8) = <<"a", "m", "p", ";">>

\* C7 (as claimed): the stored genre (style) is the text with every &amp;
\* replaced by &, and unescaping the stored value again leaves it unchanged.
C7_UnescapeIdempotent ==
    unescape.pc = "stored" =>
        /\ unescape.genre = EveryAmpReplaced(unescape.text)
        /\ unescape.style = EveryAmpReplaced(unescape.text)
        /\ StoredGenre(unescape.genre) = unescape.genre
        /\ StoredStyle(unescape.style) = unescape.style

\* C7 (amended): the stored genre (style) is the text with every &amp;
\* replaced by &, and unescaping the stored value again leaves it unchanged
\* exactly when the text contains no &amp;amp;.
C7_UnescapeOnce ==
    unescape.pc = "stored" =>
        /\ unescape.genre = EveryAmpReplaced(unescape.text)
        /\ unescape.style = EveryAmpReplaced(unescape.text)
        /\ StoredGenre(unescape.genre) = unescape.genre <=> ~DoubledAmp(unescape.text)
        /\ StoredStyle(unescape.style) = unescape.style <=> ~DoubledAmp(unescape.text)

C7_Witness ==
    /\ unescape.pc = "stored"
    /\ unescape.text = <<"R">> \o AmpEntity \o <<"R">> \o AmpEntity
    /\ unescape.genre = <<"R", "&", "R", "&">>
    /\ StoredGenre(unescape.genre) = unescape.genre

Succeeded(p) == p.pc = "release_done"
DistinctNames(cs) ==
    \A i, j \in 1..Len(cs) : cs[i][1].name = cs[j][1].name => i = j

\* C8 (as claimed): a permutation of the children of a release yields the
\* same appended values in every column and the same outcome.
C8_OrderIndependent ==
    order.pc = "parsed" =>
        /\ order.first.w = order.second.w
        /\ Succeeded(order.first) <=> Succeeded(order.second)

\* C8 (amended): a permutation of the children yields the same outcome, and
\* when the children have pairwise different names and parsing succeeds, the
\* same appended values in every column.
C8_OrderIndependentDistinct ==
    order.pc = "parsed" =>
        /\ Succeeded(order.first) <=> Succeeded(order.second)
        /\ (DistinctNames(order.children) /\ Succeeded(order.first)) =>
              order.first.w = order.second.w

C8_Witness ==
    /\ order.pc = "parsed"
    /\ order.children = <<GenresTwo, TitleAmp, ArtistFull>>
    /\ order.perm = <<3, 1, 2>>
    /\ Succeeded(order.second)
    /\ order.second.w.titles = <<Value(TextAmp)>>
    /\ Len(order.second.w.genres.values) = 2
    /\ order.second.w.artists.len = 1

C10_MandatoryNewline ==
    [][/\ ~Ended
       /\ (pc \in {"expect_first_newline", "release_newline"} /\ event'.kind # "None") =>
             IF event' = TextOf(<<"\n">>)
             THEN pc' # "failed"
             ELSE /\ pc' = "failed"
                  /\ err' = ExpectedNewline
                  /\ writer' = writer /\ file' = file /\ rows' = rows]_vars

C10_Witness ==
    /\ pc = "failed"
    /\ err = ExpectedNewline
    /\ event.kind = "Text"
    /\ n = 1
    /\ ~closed
    /\ rows = <<>>

\* C11: reading the attributes of <release> whose id attributes are numerals
\* never fails: the program goes on to the children, each id attribute has
\* appended its number and each status attribute its literal, whatever it is,
\* and an attribute of any other name (or a malformed one) appends nothing.
C11_AttributeTolerance ==
    [][(/\ pc = "main_loop"
        /\ event'.kind = "Start"
        /\ event'.name = "release"
        /\ \A i \in 1..Len(event'.attrs) :
              (event'.attrs[i].ok /\ event'.attrs[i].key = "id") =>
                  event'.attrs[i].value \in {<<"1">>, <<"2">>}) =>
          LET idAttrs == SelectSeq(event'.attrs, LAMBDA a : a.ok /\ a.key = "id")
              statusAttrs == SelectSeq(event'.attrs, LAMBDA a : a.ok /\ a.key = "status")
          IN  /\ pc' = "release_loop"
              /\ err' = [kind |-> "None", name |-> ""]
              /\ writer' =
                    [writer EXCEPT
                        !.ids = @ \o [i \in 1..Len(idAttrs) |->
                                         IF idAttrs[i].value = <<"1">> THEN 1 ELSE 2],
                        !.statuses = @ \o [i \in 1..Len(statusAttrs) |->
                                              [valid |-> TRUE,
                                               value |-> statusAttrs[i].value]]]]_vars

C11_Witness ==
    /\ pc = "release_loop"
    /\ event = Tag("Start", "release",
                   <<Attr("id", Two), Attr("status", Bogus), Attr("extra", TextA)>>)
    /\ writer.ids = <<2>>
    /\ writer.statuses = <<Value(Bogus)>>
    /\ writer.titles = <<>>

\* C12 (as claimed): whenever an item marker is appended for an artist, every
\* member (id, name, anv, join) holds as many entries as there are markers,
\* and the id and name just completed are values; whenever a marker is
\* appended for a label, id, cat_no and name hold as many entries as there
\* are markers.  From empty builders this is one entry per member per item.
C12_ItemCompleteness ==
    [][/\ writer'.artists.len = writer.artists.len + 1 =>
             /\ Len(writer'.artists.id) = writer'.artists.len
             /\ Len(writer'.artists.name) = writer'.artists.len
             /\ Len(writer'.artists.anv) = writer'.artists.len
             /\ Len(writer'.artists.join) = writer'.artists.len
             /\ writer'.artists.id[writer'.artists.len].valid
             /\ writer'.artists.name[writer'.artists.len].valid
       /\ writer'.labels.len = writer.labels.len + 1 =>
             /\ Len(writer'.labels.id) = writer'.labels.len
             /\ Len(writer'.labels.cat_no) = writer'.labels.len
             /\ Len(writer'.labels.name) = writer'.labels.len]_vars

\* C13: each expectation returns Ok exactly for an event of its shape (and,
\* where it names an element, of that name; for expect_new_line, of the text
\* "\n") and otherwise the error of its own kind carrying the name; a
\* self-closing tag never passes expect_start_of and a start tag never passes
\* expect_empty.
C13_NoCoercion ==
    expect.pc = "classified" =>
        LET e == expect.event
            x == expect.name
            ok == [kind |-> "None", name |-> ""]
        IN  /\ expect.start_of =
                  IF e.kind = "Start" /\ e.name = x THEN ok
                  ELSE [kind |-> "ExpectedStartOf", name |-> x]
            /\ expect.end_of =
                  IF e.kind = "End" /\ e.name = x THEN ok
                  ELSE [kind |-> "ExpectedEndOf", name |-> x]
            /\ expect.empty =
                  IF e.kind = "Empty" /\ e.name = x THEN ok
                  ELSE [kind |-> "ExpectedEmpty", name |-> x]
            /\ expect.text =
                  IF e.kind = "Text" THEN ok ELSE [kind |-> "ExpectedText", name |-> ""]
            /\ expect.new_line =
                  IF e.kind = "Text" /\ e.text = <<"\n">> THEN ok
                  ELSE [kind |-> "ExpectedNewline", name |-> ""]
            /\ expect.eof =
                  IF e.kind = "Eof" THEN ok ELSE [kind |-> "ExpectedEof", name |-> ""]
            /\ e.kind = "Empty" => expect.start_of # ok
            /\ e.kind = "Start" => expect.empty # ok

\* A self-closing <label/> asked for as the start of "label", as the empty
\* tag "label" and as the empty tag "image".
C13_Witness ==
    /\ expect.pc = "classified"
    /\ expect.event.kind = "Empty"
    /\ expect.event.name = "label"
    /\ expect.name = "label"
    /\ expect.start_of = ExpectedStartOf("label")
    /\ expect.empty = NoError
    /\ expect.text = ExpectedText

\* End tags less start tags among the events q: the elements q leaves, when q
\* is the rest of a well-formed <release>.
RECURSIVE Unclosed(_)
Unclosed(q) ==
    IF q = <<>> THEN 0
    ELSE Unclosed(Tail(q))
         + (IF Head(q).kind = "End" THEN 1 ELSE 0)
         - (IF Head(q).kind = "Start" THEN 1 ELSE 0)
\* The child element of <release> whose parser returns from position p.
Dispatched(p) ==
    CASE p = "title_end" -> "title"
      [] p = "genres_loop" -> "genres"
      [] p = "styles_loop" -> "styles"
      [] p = "labels_loop" -> "labels"
      [] p = "artists_loop" -> "artists"
      [] p = "images_loop" -> "images"
      [] p = "extra_artists" -> "extraartists"
      [] OTHER -> p

\* C14 (as claimed): when a field parser or an ignoring parser returns to the
\* child loop, the event it read last is the end tag of its element and the
\* rest of the record is at the level of the record's children: what is left
\* to close is <release> alone.
C14_ParserPositioning ==
    [][(/\ pc \notin {"main_loop", "release_loop"}
        /\ pc' = "release_loop") =>
          /\ event' = [kind |-> "End", name |-> Dispatched(pc), attrs |-> <<>>,
                       text |-> <<>>]
          /\ Unclosed(queue') = 1]_vars

ListColumns == {"artists", "genres", "styles", "labels"}
\* The writer w with one end-of-record marker more in each list column and
\* one record more pending.
Marked(w) ==
    [w EXCEPT !.artists.offsets = Append(@, w.artists.len),
              !.genres.offsets = Append(@, Len(w.genres.values)),
              !.styles.offsets = Append(@, Len(w.styles.values)),
              !.labels.offsets = Append(@, w.labels.len),
              !.pending = @ + 1]

\* C15: write_release runs exactly in the step that reads the "\n" after
\* </release>.  It appends one marker to each list column and adds one to
\* pending, whatever was appended for the record; when that makes BATCH_SIZE
\* the batch is flushed at once (one batch more, with pending + 1 rows in every
\* list column, and an empty writer) or the flush panics.  In every other step
\* no marker is appended and pending changes only when close flushes.
C15_CloseRecordProtocol ==
    [][IF pc = "release_newline" /\ event' = TextOf(<<"\n">>)
       THEN IF writer.pending + 1 < BATCH_SIZE
            THEN writer' = Marked(writer) /\ file' = file /\ pc' = "main_loop"
            ELSE \/ /\ pc' = "main_loop"
                    /\ writer' = NewWriter
                    /\ Len(file') = Len(file) + 1
                    /\ SubSeq(file', 1, Len(file)) = file
                    /\ \A c \in ListColumns :
                          Len(file'[Len(file')][c]) = Len(writer[c].offsets) + 1
                    /\ Len(writer.genres.offsets) + 1 = writer.pending + 1
                 \/ /\ pc' = "panicked"
                    /\ writer' = Marked(writer)
                    /\ file' = file
       ELSE \/ /\ \A c \in ListColumns : writer'[c].offsets = writer[c].offsets
               /\ writer'.pending = writer.pending
               /\ file' = file
            \/ /\ pc = "main_loop"
               /\ event' = EndOf("releases")
               /\ writer' = NewWriter]_vars

\* A record without children has been closed: one empty row in each list.
C15_Witness ==
    /\ pc = "main_loop"
    /\ Len(rows) = 1
    /\ writer.pending = 1
    /\ \A c \in ListColumns : writer[c].offsets = <<0>>
    /\ writer.titles = <<>>

\* C16: the step in which an expectation or a read fails ends the run in
\* "failed" with that error and appends, writes and closes nothing; and once
\* an error is set no step is taken at all: no event is read, nothing is
\* appended, write_release and flush do not run.
C16_AbortOnFailure ==
    [][/\ err = [kind |-> "None", name |-> ""]
       /\ pc \notin {"failed", "panicked"}
       /\ (err' # [kind |-> "None", name |-> ""] /\ err'.kind # "Panic") =>
             /\ pc' = "failed"
             /\ writer' = writer
             /\ file' = file
             /\ closed' = closed
             /\ rows' = rows
             /\ appended' = appended]_vars

\* A record failed at the text of its title while the source had more to give.
C16_Witness ==
    /\ pc = "failed"
    /\ err = ExpectedText
    /\ event = EndOf("title")
    /\ writer.ids = <<1>>
    /\ writer.pending = 0
    /\ budget > 0

\* C17 (as claimed): a flush with nothing pending writes no batch and leaves
\* the writer as it is; a flush with records pending writes exactly one batch
\* with that many rows in every column and leaves the writer empty.  flush
\* runs in close, on the writer as it stands, and in the write_release that
\* makes pending BATCH_SIZE, on the marked writer.
C17_FlushFrame ==
    [][LET inClose == pc = "main_loop" /\ event' = EndOf("releases")
           inWrite == /\ pc = "release_newline"
                      /\ event' = TextOf(<<"\n">>)
                      /\ writer.pending + 1 = BATCH_SIZE
           pending == IF inClose THEN writer.pending ELSE writer.pending + 1
       IN  (inClose \/ inWrite) =>
              IF pending = 0
              THEN file' = file /\ writer' = writer
              ELSE /\ Len(file') = Len(file) + 1
                   /\ SubSeq(file', 1, Len(file)) = file
                   /\ \A c \in Columns : Len(file'[Len(file')][c]) = pending
                   /\ writer' = NewWriter]_vars

\* C18: after </releases> the run reaches "done" only through the text "\n"
\* followed by the end of input; another event in the first place fails with
\* ExpectedNewline, in the second with ExpectedEof; and where a record is due,
\* an event that is neither </releases> nor a <release> start tag fails with
\* ExpectedStartOf("release").
C18_EndOfRun ==
    [][LET read == event'.kind # "None"
           failsWith(e) == pc' = "failed" /\ err' = e
       IN  /\ (pc = "expect_last_newline" /\ read) =>
                 IF event'.kind = "Text" /\ event'.text = <<"\n">>
                 THEN pc' = "expect_eof"
                 ELSE failsWith([kind |-> "ExpectedNewline", name |-> ""])
           /\ (pc = "expect_eof" /\ read) =>
                 IF event'.kind = "Eof"
                 THEN pc' = "done"
                 ELSE failsWith([kind |-> "ExpectedEof", name |-> ""])
           /\ (/\ pc = "main_loop"
               /\ read
               /\ ~(event'.kind = "End" /\ event'.name = "releases")
               /\ ~(event'.kind = "Start" /\ event'.name = "release")) =>
                 failsWith([kind |-> "ExpectedStartOf", name |-> "release"])
           /\ pc' = "done" => pc = "expect_eof"
           /\ pc' = "expect_eof" => pc = "expect_last_newline"
           /\ pc' = "expect_last_newline" =>
                 pc = "main_loop" /\ event'.kind = "End" /\ event'.name = "releases"]_vars

\* The empty document <releases>\n</releases>\n has been converted.
C18_Witness ==
    /\ pc = "done"
    /\ event = Eof
    /\ err = NoError
    /\ closed
    /\ n = 1
    /\ file = <<>>

\* C19 (as claimed): after <role> or <tracks> inside an artist, the element
\* is read through and discarded whatever it carries: a text or the end tag
\* read next does not fail the run, and nothing is appended.
C19_RoleTracksDiscarded ==
    [][/\ (/\ pc = "artist_role_end"
           /\ event'.kind = "Text" \/ event' = EndOf("role")) =>
             pc' \notin {"failed", "panicked"} /\ writer' = writer
       /\ (/\ pc = "artist_tracks_end"
           /\ event'.kind = "Text" \/ event' = EndOf("tracks")) =>
             pc' \notin {"failed", "panicked"} /\ writer' = writer]_vars

\* C20 (as claimed): on a finite stream followed by the end of input for
\* ever, the conversion ends, successfully or with a failure.
C20_Termination == <>(pc \in {"done", "failed", "panicked"})

\* C21: whenever write_release has returned, 0 <= pending < BATCH_SIZE and
\* each list column holds exactly `pending` closed rows; every batch written
\* before close has exactly BATCH_SIZE rows in every column, and the one that
\* close may add has at most that.  (A write_release that panicked in its
\* flush has not returned.)
C21_BoundedAccumulation ==
    pc # "panicked" =>
        /\ writer.pending \in 0..(BATCH_SIZE - 1)
        /\ \A c \in {"artists", "genres", "styles", "labels"} :
              Len(writer[c].offsets) = writer.pending
        /\ \A i \in 1..Len(file) :
              \/ \A c \in Columns : Len(file[i][c]) = BATCH_SIZE
              \/ /\ closed
                 /\ i = Len(file)
                 /\ \E k \in 1..BATCH_SIZE : \A c \in Columns : Len(file[i][c]) = k

\* One full batch has been written and a further record is pending.
C21_Witness ==
    /\ pc = "main_loop"
    /\ ~closed
    /\ Len(file) = 1
    /\ \A c \in Columns : Len(file[1][c]) = BATCH_SIZE
    /\ writer.pending = 1
    /\ Len(rows) = BATCH_SIZE + 1

\* The entries of scalar column c appended for the records rs, in order.
RECURSIVE AppendedTo(_, _)
AppendedTo(c, rs) ==
    IF rs = <<>> THEN <<>> ELSE Head(rs)[c] \o AppendedTo(c, Tail(rs))
\* Calls of write_release so far: those that returned and, when the flush of
\* the last one panicked (the only way pending is left at BATCH_SIZE), that one.
WriteReleaseCalls ==
    Len(rows) + (IF pc = "panicked" /\ writer.pending = BATCH_SIZE THEN 1 ELSE 0)

\* C22: in every state the rows written plus pending equal the calls of
\* write_release; after a successful run every column written has one row per
\* record closed, the list rows are the records' own in input order, and the
\* scalar columns are exactly the entries appended, in input order: flush and
\* close drop, repeat and reorder nothing.
C22_RowConservation ==
    /\ \A c \in Columns :
          Len(WrittenRows(file, c)) + writer.pending = WriteReleaseCalls
    /\ pc = "done" =>
          /\ writer.pending = 0
          /\ \A c \in Columns : Len(WrittenRows(file, c)) = Len(rows)
          /\ \A c \in {"ids", "statuses", "titles"} :
                WrittenRows(file, c) = AppendedTo(c, rows)
          /\ \A i \in 1..Len(rows) :
                /\ WrittenRows(file, "genres")[i] = rows[i].genres
                /\ WrittenRows(file, "styles")[i] = rows[i].styles
                /\ Len(WrittenRows(file, "artists")[i]) = rows[i].artists
                /\ Len(WrittenRows(file, "labels")[i]) = rows[i].labels

\* Three records converted: a full batch, then the remainder written by close.
C22_Witness ==
    /\ pc = "done"
    /\ Len(file) = 2
    /\ WrittenRows(file, "ids") = <<1, 2, 1>>
    /\ WrittenRows(file, "titles") = <<Value(TextA), Value(TextAmp), Value(TextA)>>
    /\ Lengths(WrittenRows(file, "labels")) = <<0, 2, 0>>

====
